---------------------------- MODULE Spec2Model ----------------------------
(***************************************************************************)
(* A model of whatsapp_script.py: the line parser _parse_message, the      *)
(* loader load_chat_data with _split_and_reorder_timestamp, the sender     *)
(* report plot_senders_distribution and the search count_word_usage.       *)
(*                                                                         *)
(* A Python str is a sequence of one-character strings.  Python's None is  *)
(* the one-element sequence None, whose element is no character.           *)
(***************************************************************************)
EXTENDS Integers, Sequences, FiniteSets, TLC

VARIABLES
    message,    \* _parse_message: its argument
    parsed,     \* _parse_message: its result, Pending before the call
    kept,       \* load_chat_data: parsed_messages after the filter, for chat_data = [message]
    fs,         \* the files: name -> whether it exists, and its lines
    call,       \* load_chat_data: its arguments
    ret,        \* load_chat_data: the table it returns or the exception it raises
    df,         \* the table handed to plot_senders_distribution and count_word_usage
    op,         \* the last of these two called, with its arguments
    out         \* what it printed or returned

vars == <<message, parsed, kept, fs, call, ret, df, op, out>>

-----------------------------------------------------------------------------
(* Bounds of the model *)

\* Characters of a message handed to the parser.
MaxLineLen == 8

\* Lines of the file load_chat_data reads, and of the other file.
MaxChatLines == 2

MaxOtherLines == 1

\* Rows of a table handed to the report and the search.
MaxRows == 3

-----------------------------------------------------------------------------
(* Values *)

None == <<"None">>

Pending == <<"Pending">>

\* Characters str.strip() removes that occur in the model's inputs.
Whitespace == {" ", "\n"}

\* The characters a message body is drawn from: those the pattern names, and
\* one ordinary character.
LineAlphabet == {"[", "]", " ", ":", "a"}

Min(S) == CHOOSE x \in S : \A y \in S : x <= y

Max(S) == CHOOSE x \in S : \A y \in S : x >= y

-----------------------------------------------------------------------------
(* str.strip() *)

RECURSIVE LStrip(_)
LStrip(s) == IF s # <<>> /\ Head(s) \in Whitespace THEN LStrip(Tail(s)) ELSE s

RECURSIVE RStrip(_)
RStrip(s) ==
    IF s # <<>> /\ s[Len(s)] \in Whitespace THEN RStrip(SubSeq(s, 1, Len(s) - 1)) ELSE s

Strip(s) == RStrip(LStrip(s))

-----------------------------------------------------------------------------
\* re.match(pattern, s) by backtracking.  The pattern is: start of string, an
\* opening bracket, group 1 (lazy run of any characters), a closing bracket and
\* a space, group 2 (lazy run), a colon and a space, group 3 (greedy run), end
\* anchor.  A position is the index of the next character to read.

\* The literal lit is read at position i.
LiteralAt(s, i, lit) ==
    /\ i >= 1
    /\ i + Len(lit) - 1 <= Len(s)
    /\ SubSeq(s, i, i + Len(lit) - 1) = lit

\* The dot reads every character of s[i..j-1]: any character but a line break.
DotRun(s, i, j) == \A k \in i..(j - 1) : s[k] # "\n"

\* The end anchor: the end of the string, or just before a line break ending it.
EndAnchor(s, i) == i = Len(s) + 1 \/ (i = Len(s) /\ s[i] = "\n")

\* Lazy, were groups 1 and 2 written greedy: the longest run.
LazyGreedy(ends) == Max(ends)

\* A lazy run is the shortest from which the rest of the pattern matches.
Lazy(ends) == Min(ends)

\* A greedy run is the longest such.
Greedy(ends) == Max(ends)

\* TimestampClose, were the space after the bracket left out of the pattern.
TimestampCloseNoSpace == <<"]">>

\* The literals that close group 1 and group 2.
TimestampClose == <<"]", " ">>

SenderClose == <<":", " ">>

\* Group 3 and the end anchor from position k: where group 3 may end.
ContentEnds(s, k) == {e \in k..(Len(s) + 1) : DotRun(s, k, e) /\ EndAnchor(s, e)}

\* Group 2 and what follows it, from position j0: where group 2 may end.
SenderEnds(s, j0) ==
    {j \in j0..Len(s) :
        /\ DotRun(s, j0, j)
        /\ LiteralAt(s, j, SenderClose)
        /\ ContentEnds(s, j + Len(SenderClose)) # {}}

\* The whole pattern from position 1: where group 1 may end.
TimestampEnds(s) ==
    IF ~LiteralAt(s, 1, <<"[">>) THEN {}
    ELSE {i \in 2..Len(s) :
            /\ DotRun(s, 2, i)
            /\ LiteralAt(s, i, TimestampClose)
            /\ SenderEnds(s, i + Len(TimestampClose)) # {}}

\* match.groups() of the match re.match finds; TimestampEnds(s) is not empty.
MatchGroups(s) ==
    LET i == Lazy(TimestampEnds(s))
        j0 == i + Len(TimestampClose)
        j == Lazy(SenderEnds(s, j0))
        k == j + Len(SenderClose)
        e == Greedy(ContentEnds(s, k))
    IN  <<SubSeq(s, 2, i - 1), SubSeq(s, j0, j - 1), SubSeq(s, k, e - 1)>>

\* _parse_message(message): the groups of the match, or three None.
_parse_message(msg) ==
    LET s == Strip(msg)
    IN  IF TimestampEnds(s) # {} THEN MatchGroups(s) ELSE <<None, None, None>>

\* parsed_messages = [_parse_message(message) for message in chat_data]
ParseAll(chat_data) == [n \in 1..Len(chat_data) |-> _parse_message(chat_data[n])]

\* Parsed, were the filter left out: every result is kept.
KeepAll(msg) == TRUE

\* msg[0] is not None
Parsed(msg) == msg[1] # None

\* parsed_messages = [msg for msg in parsed_messages if msg[0] is not None]
RECURSIVE FilterParsed(_)
FilterParsed(msgs) ==
    IF msgs = <<>> THEN <<>>
    ELSE IF Parsed(Head(msgs)) THEN <<Head(msgs)>> \o FilterParsed(Tail(msgs))
    ELSE FilterParsed(Tail(msgs))

-----------------------------------------------------------------------------
(* load_chat_data and _split_and_reorder_timestamp *)

\* The name load_chat_data opens.
ChatFile == "_chat.txt"

OtherFile == "other.txt"

Paths == {ChatFile, OtherFile}

NoFile == [exists |-> FALSE, lines |-> <<>>]

NoCall == [file_path |-> "", split_timestamp |-> FALSE]

NoReturn == [kind |-> "none", exc |-> "", columns |-> <<>>, rows |-> <<>>]

Raise(e) == [kind |-> "raise", exc |-> e, columns |-> <<>>, rows |-> <<>>]

\* pd.DataFrame(rows, columns=cols): each row a function of the column names.
DataFrame(cols, rws) == [kind |-> "table", exc |-> "", columns |-> cols, rows |-> rws]

\* with open(name, 'r', encoding='utf-8') as f: f.readlines()
FileExists(files, name) == files[name].exists

ReadLines(files, name) == files[name].lines

\* The positions of sep in s.
SepPositions(s, sep) == {k \in 1..Len(s) : s[k] = sep}

\* str.split(sep), sep one character: the pieces between every two separators.
RECURSIVE StrSplit(_, _)
StrSplit(s, sep) ==
    IF SepPositions(s, sep) = {} THEN <<s>>
    ELSE LET k == Min(SepPositions(s, sep))
         IN  <<SubSeq(s, 1, k - 1)>> \o StrSplit(SubSeq(s, k + 1, Len(s)), sep)

\* Series.str.split(sep, expand=True): one column per piece of the row with
\* the most pieces, None where a row has fewer; no column for no row.
ExpandWidth(pieces) ==
    IF pieces = <<>> THEN 0 ELSE Max({Len(pieces[n]) : n \in 1..Len(pieces)})

ExpandCell(pieces, n, c) == IF c <= Len(pieces[n]) THEN pieces[n][c] ELSE None

\* _split_and_reorder_timestamp(df)
_split_and_reorder_timestamp(frame) ==
    LET pieces == [n \in 1..Len(frame.rows) |-> StrSplit(frame.rows[n].Timestamp, ",")]
    IN  \* df[["Date", "Time"]] = ... takes as many columns as it has keys
        IF ExpandWidth(pieces) # 2 THEN Raise("ValueError")
        ELSE DataFrame(<<"Date", "Time", "Sender", "Content">>,
                 [n \in 1..Len(frame.rows) |->
                     [Date |-> ExpandCell(pieces, n, 1),
                      Time |-> ExpandCell(pieces, n, 2),
                      Sender |-> frame.rows[n].Sender,
                      Content |-> frame.rows[n].Content]])

\* The name handed to open(), whatever file_path is.
OpenedPath(file_path) == ChatFile

\* load_chat_data(file_path, split_timestamp)
load_chat_data(files, file_path, split_timestamp) ==
    IF ~FileExists(files, OpenedPath(file_path)) THEN Raise("FileNotFoundError")
    ELSE LET chat_data == ReadLines(files, OpenedPath(file_path))
             parsed_messages == FilterParsed(ParseAll(chat_data))
             frame == DataFrame(<<"Timestamp", "Sender", "Content">>,
                          [n \in 1..Len(parsed_messages) |->
                              [Timestamp |-> parsed_messages[n][1],
                               Sender |-> parsed_messages[n][2],
                               Content |-> parsed_messages[n][3]]])
         IN  IF split_timestamp THEN _split_and_reorder_timestamp(frame) ELSE frame

-----------------------------------------------------------------------------
(* The lines the files are written from *)

Line(timestamp, sender, content) ==
    <<"[">> \o timestamp \o <<"]", " ">> \o sender \o <<":", " ">> \o content \o <<"\n">>

\* "1, 2", "1" and "1,2,3": one comma, none, two.
Timestamps == {<<"1", ",", " ", "2">>, <<"1">>, <<"1", ",", "2", ",", "3">>}

LineSenders == {<<"A">>, <<"b">>}

LineContents == {<<"h", "i">>}

\* A line with no bracket, and a bracketed one with no separator.
MalformedLines == {<<"x", "\n">>, <<"[", "1", "]", " ", "A", "\n">>}

LinePool ==
    {Line(t, s, c) : t \in Timestamps, s \in LineSenders, c \in LineContents}
        \cup MalformedLines

MaxLines(p) == IF p = ChatFile THEN MaxChatLines ELSE MaxOtherLines

-----------------------------------------------------------------------------
(* The files are written, then load_chat_data is called once. *)

NoOp == [kind |-> "none", word |-> <<>>]

NoOut == [kind |-> "none", series |-> <<>>, annotations |-> <<>>, rows |-> <<>>]

Init ==
    /\ message = <<>>
    /\ parsed = Pending
    /\ kept = <<>>
    /\ fs = [p \in Paths |-> NoFile]
    /\ call = NoCall
    /\ ret = NoReturn
    /\ df = <<>>
    /\ op = NoOp
    /\ out = NoOut

CreateFile(p) ==
    /\ ret.kind = "none"
    /\ ~fs[p].exists
    /\ fs' = [fs EXCEPT ![p] = [exists |-> TRUE, lines |-> <<>>]]
    /\ UNCHANGED <<message, parsed, kept, call, ret, df, op, out>>

AppendLine(p, l) ==
    /\ ret.kind = "none"
    /\ fs[p].exists
    /\ Len(fs[p].lines) < MaxLines(p)
    /\ fs' = [fs EXCEPT ![p].lines = Append(@, l)]
    /\ UNCHANGED <<message, parsed, kept, call, ret, df, op, out>>

Load(file_path, split_timestamp) ==
    /\ ret.kind = "none"
    /\ call' = [file_path |-> file_path, split_timestamp |-> split_timestamp]
    /\ ret' = load_chat_data(fs, file_path, split_timestamp)
    /\ UNCHANGED <<message, parsed, kept, fs, df, op, out>>

Next ==
    \/ \E p \in Paths : CreateFile(p)
    \/ \E p \in Paths, l \in LinePool : AppendLine(p, l)
    \/ \E p \in Paths, b \in BOOLEAN : Load(p, b)

Spec == Init /\ [][Next]_vars

-----------------------------------------------------------------------------
(* What the claims about load_chat_data speak of *)

Contains(s, lit) == \E k \in 1..Len(s) : LiteralAt(s, k, lit)

\* The first position at or after from where lit is read; lit occurs there.
FirstAt(s, lit, from) == Min({k \in from..Len(s) : LiteralAt(s, k, lit)})

\* A line of the form "[T] S: C": a bracket opens it, a closing bracket and a
\* space follow, and a colon and a space after them.
WellFormedLine(l) ==
    LET s == Strip(l)
    IN  /\ LiteralAt(s, 1, <<"[">>)
        /\ \E i \in 2..Len(s) :
              /\ LiteralAt(s, i, <<"]", " ">>)
              /\ \E j \in (i + 2)..Len(s) : LiteralAt(s, j, <<":", " ">>)

RECURSIVE WellFormedOnly(_)
WellFormedOnly(lines) ==
    IF lines = <<>> THEN <<>>
    ELSE IF WellFormedLine(Head(lines)) THEN <<Head(lines)>> \o WellFormedOnly(Tail(lines))
    ELSE WellFormedOnly(Tail(lines))

\* The timestamp between the opening bracket and the first "] " of a line.
TimestampOf(l) == SubSeq(Strip(l), 2, FirstAt(Strip(l), <<"]", " ">>, 2) - 1)

Commas(s) == Cardinality(SepPositions(s, ","))

\* A timestamp "D, T": one comma, and a space after it.
DateCommaTime(t) == Commas(t) = 1 /\ Contains(t, <<",", " ">>)

Called == ret.kind # "none"

\* The rows of a returned table, by sender and content.
SendersAndContents(rws) == [n \in 1..Len(rws) |-> <<rws[n].Sender, rws[n].Content>>]

LineSendersAndContents(lines) ==
    [n \in 1..Len(lines) |-> <<_parse_message(lines[n])[2], _parse_message(lines[n])[3]>>]

\* C1: load reads the file its file_path argument names: a missing file_path
\* fails with a file-access error and returns no table, an existing one does
\* not, and the rows of a returned table are those of the lines of that file.
C1_LoadReadsNamedFile ==
    Called =>
        /\ ~fs[call.file_path].exists => ret = Raise("FileNotFoundError")
        /\ fs[call.file_path].exists => ret # Raise("FileNotFoundError")
        /\ (fs[call.file_path].exists /\ ret.kind = "table") =>
              SendersAndContents(ret.rows)
                  = LineSendersAndContents(WellFormedOnly(fs[call.file_path].lines))

\* C3: load yields a table with one row per well-formed line of the file, in
\* the order of the file, and none for a malformed line.  Stated for the file
\* _chat.txt whose well-formed lines all carry a timestamp "D, T".
C3_OneRowPerWellFormedLine ==
    (/\ Called
     /\ call.file_path = ChatFile
     /\ fs[ChatFile].exists
     /\ \A n \in 1..Len(fs[ChatFile].lines) :
           WellFormedLine(fs[ChatFile].lines[n]) => DateCommaTime(TimestampOf(fs[ChatFile].lines[n])))
    => /\ ret.kind = "table"
       /\ Len(ret.rows) = Len(WellFormedOnly(fs[ChatFile].lines))
       /\ SendersAndContents(ret.rows) = LineSendersAndContents(WellFormedOnly(fs[ChatFile].lines))

ColumnsExpected(split_timestamp) ==
    IF split_timestamp THEN <<"Date", "Time", "Sender", "Content">>
    ELSE <<"Timestamp", "Sender", "Content">>

\* C4: when the file is empty or none of its lines match, load does not fail
\* and returns a table of no rows with the right columns, with split_timestamp
\* true as with false.  Stated for the file _chat.txt.
C4_EmptyFileLoadsEmptyTable ==
    (/\ Called
     /\ call.file_path = ChatFile
     /\ fs[ChatFile].exists
     /\ WellFormedOnly(fs[ChatFile].lines) = <<>>)
    => /\ ret.kind = "table"
       /\ ret.rows = <<>>
       /\ ret.columns = ColumnsExpected(call.split_timestamp)

\* C5: in a table split into Date and Time, Date, ", " and Time of a row put
\* together are the timestamp "D, T" the row was split from (that of the line
\* of _chat.txt the row was parsed from).
C5_SplitRoundTrip ==
    (Called /\ call.split_timestamp /\ ret.kind = "table") =>
        \A n \in 1..Len(ret.rows) :
            LET t == TimestampOf(WellFormedOnly(fs[ChatFile].lines)[n])
            IN  DateCommaTime(t) => ret.rows[n].Date \o <<",", " ">> \o ret.rows[n].Time = t

\* C6: with split_timestamp true, a retained row whose timestamp has no comma
\* makes load fail, whether all rows or only some have none: no table is
\* returned, and so no row with an absent Date or Time.
C6_CommaLessTimestampFails ==
    (/\ Called
     /\ call.split_timestamp
     /\ fs[ChatFile].exists
     /\ \E n \in 1..Len(fs[ChatFile].lines) :
           /\ WellFormedLine(fs[ChatFile].lines[n])
           /\ Commas(TimestampOf(fs[ChatFile].lines[n])) = 0)
    => ret.kind = "raise"

-----------------------------------------------------------------------------
\* The parser on one line: every message over LineAlphabet of at most
\* MaxLineLen characters, with or without the line break readlines() leaves
\* at the end of a line.

LineEnded(s) == IF s = <<>> THEN FALSE ELSE s[Len(s)] = "\n"

ParseInit ==
    /\ message = <<>>
    /\ parsed = Pending
    /\ kept = <<>>
    /\ fs = [p \in Paths |-> NoFile]
    /\ call = NoCall
    /\ ret = NoReturn
    /\ df = <<>>
    /\ op = NoOp
    /\ out = NoOut

\* The caller writes the message, a character at a time; a line break ends it.
AppendChar ==
    /\ parsed = Pending
    /\ Len(message) < MaxLineLen
    /\ ~LineEnded(message)
    /\ \E c \in LineAlphabet \cup {"\n"} : message' = Append(message, c)
    /\ UNCHANGED <<parsed, kept, fs, call, ret, df, op, out>>

\* chat_data = [message]: the line is parsed and an unparsed result dropped.
ParseLine ==
    /\ parsed = Pending
    /\ parsed' = _parse_message(message)
    /\ kept' = FilterParsed(ParseAll(<<message>>))
    /\ UNCHANGED <<message, fs, call, ret, df, op, out>>

ParseNext == AppendChar \/ ParseLine

ParseSpec == ParseInit /\ [][ParseNext]_vars

-----------------------------------------------------------------------------
(* What the claims about _parse_message speak of *)

Sentinel == <<None, None, None>>

Returned == parsed # Pending

Matched == Returned /\ parsed # Sentinel

\* The line without the line break that ends it.
Body(l) == IF LineEnded(l) THEN SubSeq(l, 1, Len(l) - 1) ELSE l

\* The line is "[T] S: C" with the "] " at i and the ": " at j.
SplitsAt(b, i, j) ==
    /\ LiteralAt(b, 1, <<"[">>)
    /\ LiteralAt(b, i, <<"]", " ">>)
    /\ LiteralAt(b, j, <<":", " ">>)

PartT(b, i) == SubSeq(b, 2, i - 1)

PartS(b, i, j) == SubSeq(b, i + 2, j - 1)

PartC(b, j) == SubSeq(b, j + 2, Len(b))

\* T holds no "] ", S no ": ", and C is not empty and ends in no whitespace.
Unambiguous(b, i, j) ==
    /\ ~Contains(PartT(b, i), <<"]", " ">>)
    /\ ~Contains(PartS(b, i, j), <<":", " ">>)
    /\ PartC(b, j) # <<>>
    /\ PartC(b, j)[Len(PartC(b, j))] \notin Whitespace

\* C2 as stated: for every line "[T] S: C" the parser returns exactly
\* (T, S, C), each part as it stands in the line.
C2_EveryLineParsesToItsParts ==
    (Returned /\ LiteralAt(message, 1, <<"[">>)) =>
        LET b == Body(message)
        IN  \A i \in 2..Len(b) :
                LiteralAt(b, i, <<"]", " ">>) =>
                    \A j \in (i + 2)..Len(b) :
                        SplitsAt(b, i, j) => parsed = <<PartT(b, i), PartS(b, i, j), PartC(b, j)>>

\* C2 as amended: for every line "[T] S: C", with or without a line break at
\* its end, in which T holds no "] ", S holds no ": " and C is not empty and
\* does not end in whitespace, the parser returns exactly (T, S, C).
C2_UnambiguousLineParsesToItsParts ==
    (Returned /\ LiteralAt(message, 1, <<"[">>)) =>
        LET b == Body(message)
        IN  \A i \in 2..Len(b) :
                LiteralAt(b, i, <<"]", " ">>) =>
                    \A j \in (i + 2)..Len(b) :
                        (SplitsAt(b, i, j) /\ Unambiguous(b, i, j)) =>
                            parsed = <<PartT(b, i), PartS(b, i, j), PartC(b, j)>>

\* A line "[T] S: C" of this kind with T and S not empty, and a bracket in it
\* beyond the two of the form, has been parsed.
C2_Witness ==
    /\ Matched
    /\ \E i \in 3..Len(Body(message)), j \in 6..Len(Body(message)) :
          /\ j >= i + 3
          /\ SplitsAt(Body(message), i, j)
          /\ Unambiguous(Body(message), i, j)
          /\ Contains(PartS(Body(message), i, j), <<"]">>)

\* The line lacks the bracketed segment that leads it, or the ": " after it.
MissingBracket(s) == ~LiteralAt(s, 1, <<"[">>) \/ ~Contains(s, <<"]", " ">>)

MissingSeparator(s) ==
    Contains(s, <<"]", " ">>)
        => ~\E j \in (FirstAt(s, <<"]", " ">>, 1) + 2)..Len(s) : LiteralAt(s, j, <<":", " ">>)

\* C9: for a line that lacks the leading bracketed segment or the ": " after
\* the sender the parser returns three absent values; what it returns is
\* always three present values or three absent ones; and every row kept for
\* the table has a timestamp, a sender and a content.
C9_SentinelOrWholeTriple ==
    Returned =>
        /\ (MissingBracket(Strip(message)) \/ MissingSeparator(Strip(message))) => parsed = Sentinel
        /\ parsed = Sentinel \/ \A c \in 1..3 : parsed[c] # None
        /\ \A n \in 1..Len(kept) : \A c \in 1..3 : kept[n][c] # None
        /\ Len(kept) = (IF parsed = Sentinel THEN 0 ELSE 1)

\* A line with its bracketed segment and no ": " after it was parsed and dropped.
C9_Witness ==
    /\ parsed = Sentinel
    /\ kept = <<>>
    /\ ~MissingBracket(Strip(message))
    /\ Contains(Strip(message), <<":">>)

\* C10 as stated: the timestamp ends at the first "]" of the line.
C10_TimestampEndsAtFirstBracket ==
    Matched => parsed[1] = SubSeq(Strip(message), 2, FirstAt(Strip(message), <<"]">>, 1) - 1)

\* C10 as amended: the timestamp ends at the first "] " (a closing bracket and
\* a space) of the stripped line, the sender at the first ": " after it, and
\* the content is all that follows that separator to the end of the stripped
\* line.
C10_FirstSeparatorsAreUsed ==
    Matched =>
        LET s == Strip(message)
            i == FirstAt(s, <<"]", " ">>, 1)
            j == FirstAt(s, <<":", " ">>, i + 2)
        IN  /\ Contains(s, <<"]", " ">>)
            /\ Contains(SubSeq(s, i + 2, Len(s)), <<":", " ">>)
            /\ parsed = <<SubSeq(s, 2, i - 1), SubSeq(s, i + 2, j - 1), SubSeq(s, j + 2, Len(s))>>

\* A parsed line with a second "] " after the first, and a colon in its content.
C10_Witness ==
    /\ Matched
    /\ Contains(parsed[2], <<"]", " ">>)
    /\ Contains(parsed[3], <<":">>)

-----------------------------------------------------------------------------
(* plot_senders_distribution and count_word_usage *)

\* Code points of the characters of the senders' names: str is ordered by them.
Ord == ("A" :> 65) @@ ("a" :> 97) @@ ("b" :> 98)

\* x < y for two str.
RECURSIVE StrLess(_, _)
StrLess(x, y) ==
    IF y = <<>> THEN FALSE
    ELSE IF x = <<>> THEN TRUE
    ELSE IF Head(x) # Head(y) THEN Ord[Head(x)] < Ord[Head(y)]
    ELSE StrLess(Tail(x), Tail(y))

\* The distinct values of a column, in the order they first appear.
RECURSIVE Uniques(_)
Uniques(values) ==
    IF values = <<>> THEN <<>>
    ELSE LET before == Uniques(SubSeq(values, 1, Len(values) - 1))
             v == values[Len(values)]
         IN  IF \E n \in 1..Len(before) : before[n] = v THEN before ELSE Append(before, v)

\* key put into the ascending sequence keys, at its place.
RECURSIVE Insert(_, _)
Insert(keys, key) ==
    IF keys = <<>> THEN <<key>>
    ELSE IF StrLess(key, Head(keys)) THEN <<key>> \o keys
    ELSE <<Head(keys)>> \o Insert(Tail(keys), key)

\* SortKeys, were the keys left in the order they first appear (sort=False).
KeysAsFound(keys) == keys

\* groupby sorts the group keys (sort=True is its default).
RECURSIVE SortKeys(_)
SortKeys(keys) ==
    IF keys = <<>> THEN <<>>
    ELSE Insert(SortKeys(SubSeq(keys, 1, Len(keys) - 1)), keys[Len(keys)])

\* The rows of a group.
RECURSIVE GroupSize(_, _)
GroupSize(values, key) ==
    IF values = <<>> THEN 0
    ELSE (IF Head(values) = key THEN 1 ELSE 0) + GroupSize(Tail(values), key)

\* df.groupby("Sender").size()
sender_message_count(frame) ==
    LET senders == [n \in 1..Len(frame) |-> frame[n].Sender]
        keys == SortKeys(Uniques(senders))
    IN  [n \in 1..Len(keys) |-> [Sender |-> keys[n], size |-> GroupSize(senders, keys[n])]]

\* for index, value in enumerate(sender_message_count): plt.annotate(...)
Annotations(series) ==
    [n \in 1..Len(series) |-> [text |-> series[n].size, x |-> series[n].size, y |-> n - 1]]

\* Lower case of a character, for a match with case=False.
Lower(c) == IF c = "H" THEN "h" ELSE IF c = "I" THEN "i" ELSE c

\* One character of a pattern read against one of the text: a dot reads any
\* character but a line break, another character itself, whatever the case.
PatternCharReads(pc, tc) == IF pc = "." THEN tc # "\n" ELSE Lower(pc) = Lower(tc)

\* re.search(pat, text, re.IGNORECASE), pat of literal characters and dots.
RegexSearch(pat, text) ==
    \E i \in 1..(Len(text) + 1) :
        /\ i + Len(pat) - 1 <= Len(text)
        /\ \A k \in 1..Len(pat) : PatternCharReads(pat[k], text[i + k - 1])

\* Series.str.contains(word, case=False, na=False), of one value.
StrContains(value, word) == IF value = None THEN FALSE ELSE RegexSearch(word, value)

\* df[mask]
RECURSIVE SelectRows(_, _)
SelectRows(frame, mask) ==
    IF frame = <<>> THEN <<>>
    ELSE IF Head(mask) THEN <<Head(frame)>> \o SelectRows(Tail(frame), Tail(mask))
    ELSE SelectRows(Tail(frame), Tail(mask))

\* count_word_usage(word, df)
count_word_usage(word, frame) ==
    LET mask == [n \in 1..Len(frame) |-> StrContains(frame[n].Content, word)]
        filtered_df == SelectRows(frame, mask)
    IN  [n \in 1..Len(filtered_df) |->
            [Date |-> filtered_df[n].Date,
             Sender |-> filtered_df[n].Sender,
             Content |-> filtered_df[n].Content]]

-----------------------------------------------------------------------------
(* The tables: rows of a split table, the content of a row possibly absent. *)

TableSenders == {<<"b">>, <<"A">>, <<"A", "b">>}

TableContents == {<<"H", "i">>, <<"y", "o">>, <<"o", "h", "i">>, None}

TableRows ==
    {[Date |-> <<"1">>, Time |-> <<" ", "2">>, Sender |-> s, Content |-> c] :
        s \in TableSenders, c \in TableContents}

\* Words of letters, and words with a dot.
Words == {<<>>, <<"h", "i">>, <<"H", "I">>, <<"y">>, <<".">>, <<"h", ".">>}

TableInit ==
    /\ message = <<>>
    /\ parsed = Pending
    /\ kept = <<>>
    /\ fs = [p \in Paths |-> NoFile]
    /\ call = NoCall
    /\ ret = NoReturn
    /\ df = <<>>
    /\ op = NoOp
    /\ out = NoOut

\* The caller builds the table, a row at a time.
AddRow(r) ==
    /\ op.kind = "none"
    /\ Len(df) < MaxRows
    /\ df' = Append(df, r)
    /\ UNCHANGED <<message, parsed, kept, fs, call, ret, op, out>>

\* plot_senders_distribution(df): the counts are printed, and a bar drawn and
\* annotated for each.
plot_senders_distribution ==
    /\ op.kind = "none"
    /\ op' = [kind |-> "report", word |-> <<>>]
    /\ out' = [kind |-> "report",
               series |-> sender_message_count(df),
               annotations |-> Annotations(sender_message_count(df)),
               rows |-> <<>>]
    /\ UNCHANGED <<message, parsed, kept, fs, call, ret, df>>

SearchWord(word) ==
    /\ op.kind = "none"
    /\ op' = [kind |-> "search", word |-> word]
    /\ out' = [kind |-> "search",
               series |-> <<>>,
               annotations |-> <<>>,
               rows |-> count_word_usage(word, df)]
    /\ UNCHANGED <<message, parsed, kept, fs, call, ret, df>>

TableNext ==
    \/ \E r \in TableRows : AddRow(r)
    \/ plot_senders_distribution
    \/ \E w \in Words : SearchWord(w)

TableSpec == TableInit /\ [][TableNext]_vars

-----------------------------------------------------------------------------
(* What the claims about the search and the report speak of *)

\* word is in value as it stands, whatever the case of the letters.
LiteralIn(value, word) ==
    \E i \in 1..(Len(value) + 1) :
        /\ i + Len(word) - 1 <= Len(value)
        /\ \A k \in 1..Len(word) : Lower(word[k]) = Lower(value[i + k - 1])

RECURSIVE RowsWithWord(_, _)
RowsWithWord(frame, word) ==
    IF frame = <<>> THEN <<>>
    ELSE (IF Head(frame).Content # None /\ LiteralIn(Head(frame).Content, word)
          THEN <<[Date |-> Head(frame).Date, Sender |-> Head(frame).Sender,
                  Content |-> Head(frame).Content]>>
          ELSE <<>>)
         \o RowsWithWord(Tail(frame), word)

\* C7: search(word, table) returns exactly the rows whose content holds word
\* as a literal substring, whatever the case, in their order in the table and
\* with the columns Date, Sender and Content; a row with no content is left out.
C7_SearchIsLiteralSubstring ==
    op.kind = "search" => out.rows = RowsWithWord(df, op.word)

SwapRows(frame, n) == [frame EXCEPT ![n] = frame[n + 1], ![n + 1] = frame[n]]

RowsOf(frame, sender) == {n \in 1..Len(frame) : frame[n].Sender = sender}

RECURSIVE SumSizes(_)
SumSizes(series) == IF series = <<>> THEN 0 ELSE Head(series).size + SumSizes(Tail(series))

\* C8: the report counts, for each distinct sender of the table, the rows with
\* that sender; the counts are listed by ascending sender name and not in the
\* order of the table, they sum to the number of rows, and they are the same
\* for the table with any two neighbouring rows exchanged, hence for every
\* permutation of its rows.
C8_CountsPerSenderSorted ==
    op.kind = "report" =>
        /\ {out.series[n].Sender : n \in 1..Len(out.series)} = {df[n].Sender : n \in 1..Len(df)}
        /\ \A n \in 1..Len(out.series) :
              out.series[n].size = Cardinality(RowsOf(df, out.series[n].Sender))
        /\ \A n \in 1..(Len(out.series) - 1) :
              StrLess(out.series[n].Sender, out.series[n + 1].Sender)
        /\ SumSizes(out.series) = Len(df)
        /\ \A n \in 1..(Len(df) - 1) : sender_message_count(SwapRows(df, n)) = out.series

\* A report of a table whose senders are not in ascending order, one of them
\* on two rows.
C8_Witness ==
    /\ op.kind = "report"
    /\ Len(df) >= 3
    /\ StrLess(df[2].Sender, df[1].Sender)
    /\ \E n \in 1..Len(out.series) : out.series[n].size >= 2

=============================================================================
